---- MODULE Spec2Model ----
(***************************************************************************)
(* The Replicate provider adapter (src/tools/providers/replicate.py):      *)
(* submit, the single-task poll loop _poll_prediction, the single polls    *)
(* poll_image / poll_video and the thread-pool fan-out poll_tasks_parallel. *)
(*                                                                         *)
(* Time is a global integer clock `now` (seconds).  A thread that is in a  *)
(* blocking call (requests.get, time.sleep) holds the time at which the    *)
(* call completes in `wake`; the clock advances only when every thread is  *)
(* blocked, so code between two blocking calls takes no time.              *)
(***************************************************************************)
EXTENDS Integers, Sequences, FiniteSets, TLC

----------------------------------------------------------------------------
(* Bounds of the model *)

\* largest max_wait a single poll is called with
MaxWaitPoll == 22
\* largest poll_interval of a call (1..MaxPollInterval)
MaxPollInterval == 2
\* longest round trip of one requests.get (0..MaxLatency)
MaxLatency == 2
\* longest task_ids list handed to poll_tasks_parallel
MaxHandles == 3
\* max_wait of a poll_tasks_parallel call
MaxWaitBatch == 2
\* longest round trip of one requests.get during a batch (0..MaxLatencyBatch)
MaxLatencyBatch == 0
\* the worker cap of the pool: the literal 20 of replicate.py:354, scaled
\* down so that a batch of MaxHandles tasks can exceed it
WorkerCap == 2

(* Program constants *)

\* `if retry_count > 10`
MAX_RETRIES == 10

----------------------------------------------------------------------------
(* Python values *)

\* None
NoneVal == "<None>"
\* a key a dict does not hold
Missing == "<missing>"

\* `not x` for the strings and None the adapter tests
Falsy(x) == x \in {NoneVal, ""}

\* d.get(key) / d.get(key, default) on a value that may be Missing
DictGet(v, default) == IF v = Missing THEN default ELSE v

\* x or y
PyOr(x, y) == IF Falsy(x) THEN y ELSE x

Min(a, b) == IF a < b THEN a ELSE b

\* an exception message: the f-string's fixed text and its interpolated values
Msg(text, a, b, n) == [text |-> text, a |-> a, b |-> b, n |-> n]

NoMsg == Msg("", "", "", 0)

----------------------------------------------------------------------------
(* The vendor *)

\* the task ids the vendor issues, and a handle no submit ever returned
VendorIds == {"r1"}
Handles == VendorIds \cup {"zz"}

\* the "output" of a prediction: a list of URLs, a URL string, null, no key,
\* or another JSON shape
Output(kind, items, text) == [kind |-> kind, items |-> items, text |-> text]

Outputs ==
    { Output("list", s, "") : s \in {<<>>, <<"u1">>, <<"u1", "u2">>, <<"u2", "u1">>} }
    \cup { Output("str", <<>>, t) : t \in {"", "u1"} }
    \cup { Output("none", <<>>, ""), Output("missing", <<>>, ""), Output("dict", <<>>, "") }

\* what one requests.get(poll_url) comes back with: an exception of the
\* transport, or an HTTP response (status code, body text, whether the body
\* is JSON, and the JSON's status / output / error)
Response(raises, code, json, status, output, error) ==
    [raises |-> raises, code |-> code, json |-> json, status |-> status,
     output |-> output, error |-> error, text |-> "body"]

NoOutput == Output("missing", <<>>, "")

\* no response
NoResponse == Response(FALSE, 0, FALSE, Missing, NoOutput, Missing)

HttpErrorCodes == {201, 404, 500}

PollResponses ==
    { Response(TRUE, 0, FALSE, Missing, NoOutput, Missing) }
    \cup { Response(FALSE, c, FALSE, Missing, NoOutput, Missing) : c \in HttpErrorCodes }
    \cup { Response(FALSE, 200, FALSE, Missing, NoOutput, Missing) }
    \cup { Response(FALSE, 200, TRUE, "succeeded", o, Missing) : o \in Outputs }
    \cup { Response(FALSE, 200, TRUE, s, NoOutput, e) :
             s \in {"failed", "canceled"}, e \in {Missing, NoneVal, "", "boom"} }
    \cup { Response(FALSE, 200, TRUE, s, NoOutput, Missing) :
             s \in {"processing", "starting", NoneVal, Missing} }

----------------------------------------------------------------------------
(* GenerationResult dicts and what a call ends with *)

\* {"status": ..., "task_id": ..., "result_url": ...} or
\* {"status": "error", "task_id": ..., "error": str(e)}; a key the dict does
\* not hold is Missing (NoMsg for "error")
SuccessResult(task_id, result_url) ==
    [status |-> "success", task_id |-> task_id, result_url |-> result_url, error |-> NoMsg]

ErrorResult(task_id, msg) ==
    [status |-> "error", task_id |-> task_id, result_url |-> Missing, error |-> msg]

NoResult == [status |-> Missing, task_id |-> Missing, result_url |-> Missing, error |-> NoMsg]

\* how a function call ended: still running, returned a value, raised
Running == [kind |-> "none", value |-> NoResult, exc |-> NoMsg]
Returned(v) == [kind |-> "return", value |-> v, exc |-> NoMsg]
Raised(msg) == [kind |-> "raise", value |-> NoResult, exc |-> msg]

----------------------------------------------------------------------------
(* _poll_prediction: the pure parts of one iteration *)

\* the while condition with `<=` in place of `<`
DeadlineOpenInclusive(t, start_time, max_wait) == t - start_time <= max_wait

\* the loop as a do-while: the first query is made before the first test
DeadlineOpenAtEntry(t, start_time, max_wait) ==
    t = start_time \/ t - start_time < max_wait

\* `while time.time() - start_time < max_wait`
DeadlineOpen(t, start_time, max_wait) == t - start_time < max_wait

\* the test as "not a 2xx status code"
TransportErrorNon2xx(resp) == resp.code \notin 200..299

\* `if response.status_code != 200`
TransportError(resp) == resp.code # 200

\* the retry test with `>=` in place of `>`
RetryExhaustedAt(retry_count) == retry_count >= MAX_RETRIES

\* `if retry_count > 10`
RetryExhausted(retry_count) == retry_count > MAX_RETRIES

\* the loop without the line `retry_count = 0`
RetryKept(retry_count) == retry_count

\* `retry_count = 0` after response.json()
RetryAfterSuccess(retry_count) == 0

\* the result URL of a succeeded prediction, or no usable output
Usable(url) == [ok |-> TRUE, url |-> url]
Unusable == [ok |-> FALSE, url |-> Missing]

\* the extraction with output[-1] in place of output[0]
ExtractResultUrlLast(output) ==
    IF output.kind = "list" /\ output.items # <<>> THEN Usable(output.items[Len(output.items)])
    ELSE IF output.kind = "str" /\ output.text # "" THEN Usable(output.text)
    ELSE Unusable

\* the extraction without the truth test on a string output
ExtractResultUrlAnyStr(output) ==
    IF output.kind = "list" /\ output.items # <<>> THEN Usable(output.items[1])
    ELSE IF output.kind = "str" THEN Usable(output.text)
    ELSE Unusable

\* `if isinstance(output, list) and output` / `elif isinstance(output, str)
\* and output` / else
ExtractResultUrl(output) ==
    IF output.kind = "list" /\ output.items # <<>> THEN Usable(output.items[1])
    ELSE IF output.kind = "str" /\ output.text # "" THEN Usable(output.text)
    ELSE Unusable

\* `error = data.get("error") or status`
VendorError(resp, status) == PyOr(DictGet(resp.error, NoneVal), status)

\* the test `status == "failed"` in place of `status in ("failed", "canceled")`
FailedOnly == {"failed"}

\* the statuses that end the loop with an exception
FailedStatuses == {"failed", "canceled"}

\* what the loop does next: sleep and iterate, return, or raise
Step(next, retry_count, result, exc) ==
    [next |-> next, retry_count |-> retry_count, result |-> result, exc |-> exc]

\* the body of the while loop from the return of requests.get on
HandleResponse(retry_count, task_id, resp) ==
    IF resp.raises
    THEN Step("raise", retry_count, NoResult, Msg("ConnectionError", "", "", 0))
    ELSE IF TransportError(resp)
    THEN LET rc == retry_count + 1 IN
         IF RetryExhausted(rc)
         THEN Step("raise", rc, NoResult, Msg("Poll failed after retries:", resp.text, "", 0))
         ELSE Step("sleep", rc, NoResult, NoMsg)
    ELSE IF ~resp.json
    THEN Step("raise", retry_count, NoResult, Msg("JSONDecodeError", "", "", 0))
    ELSE LET status == DictGet(resp.status, "unknown")
             rc == RetryAfterSuccess(retry_count)
         IN
         IF status = "succeeded"
         THEN LET got == ExtractResultUrl(resp.output) IN
              IF got.ok
              THEN Step("return", rc, SuccessResult(task_id, got.url), NoMsg)
              ELSE Step("raise", rc, NoResult,
                        Msg("No usable output in succeeded prediction:", status, "", 0))
         ELSE IF status \in FailedStatuses
         THEN Step("raise", rc, NoResult,
                   Msg("Replicate prediction", status, VendorError(resp, status), 0))
         ELSE Step("sleep", rc, NoResult, NoMsg)

\* the exception after the while loop
TimeoutError(max_wait) == Msg("Timeout waiting for Replicate prediction after", "", "", max_wait)

\* the `if not quiet: print_status(...)` of an iteration: the message class
\* it prints ("" for none) on the way `step` of HandleResponse for resp
Reported(quiet, resp, step) ==
    IF quiet THEN ""
    ELSE IF step.next = "return" THEN "Prediction completed successfully!"
    ELSE IF step.next = "raise" THEN ""
    ELSE IF TransportError(resp) THEN "Status check returned"
    ELSE "Status:"

\* a loop whose time.sleep is inside the `if not quiet` block
SleepForUnlessQuiet(quiet, poll_interval) == IF quiet THEN 0 ELSE poll_interval

\* `time.sleep(poll_interval)`, which follows the `if not quiet` block
SleepFor(quiet, poll_interval) == poll_interval

----------------------------------------------------------------------------
(* State *)

VARIABLES
    \* _task_poll_urls: task_id -> poll_url, a function on the recorded ids
    task_poll_urls,
    \* the task ids submit_image / submit_video have returned to a caller (a
    \* record of the history, read by no action)
    issued,
    \* wavespeed._task_poll_urls: the map of the WaveSpeed adapter
    wavespeed_task_poll_urls,
    \* time.time()
    now,
    \* the call in progress: its name and arguments
    call,
    \* where the calling thread is: "idle" between calls, "post" inside the
    \* requests.post of a submit, "poll" inside poll_image / poll_video,
    \* "submit", "collect" and "exit" inside poll_tasks_parallel, "done" when
    \* a poll call has ended
    main_pc,
    \* the _poll_prediction activations: slot 0 is the single poll's, slot i
    \* that of the i-th future of poll_tasks_parallel
    loops,
    \* how the last finished call ended
    ret,
    \* poll_tasks_parallel: the futures in submission order, each with its
    \* state and the outcome of _poll_one
    futures,
    \* the executor's work queue (indices of futures, first in first out)
    queue,
    \* the executor's worker threads: the future each one runs, or 0
    worker,
    \* the `completed` list
    completed,
    \* the `results` dict, a function on the handles it holds
    results,
    \* the futures as_completed has yielded
    yielded

batch == <<futures, queue, worker, completed, results, yielded>>

\* the adapters' module state and the record of what was handed out
adapter == <<task_poll_urls, issued, wavespeed_task_poll_urls>>

vars == <<adapter, now, call, main_pc, loops, ret, batch>>

NoCall ==
    [op |-> "none", model |-> "", override |-> NoneVal, task_ids |-> <<>>, max_wait |-> 0,
     poll_interval |-> 0, t0 |-> 0, provider |-> "", mode |-> ""]

\* one activation of _poll_prediction (with the lookup of its caller): its
\* position, its locals and how it ended.  Three fields record what the
\* vendor did, for the properties below, and are read by no action: `last`
\* is the response of the latest requests.get (NoResponse once the next one
\* is issued), `consec` counts the HTTP responses other than 200 since the
\* last 200 response, and `hist` is "pending" while every response was a
\* 200, "erred" after another HTTP response, and "spared" once a 200
\* response came when retry_count stood at MAX_RETRIES.  `quiet` is the
\* argument of that name (FALSE, its default, until the caller sets it), and
\* `reported` what the latest iteration handed to print_status.
Activation(pc, task_id, start_time, wake, retry_count, out, consec, last, hist) ==
    [pc |-> pc, task_id |-> task_id, start_time |-> start_time, wake |-> wake,
     retry_count |-> retry_count, out |-> out, consec |-> consec, last |-> last,
     hist |-> hist, quiet |-> FALSE, reported |-> ""]

\* the lookup with a default poll URL: _task_poll_urls.get(task_id, "p1")
PollUrlOfDefault(task_id) ==
    IF task_id \in DOMAIN task_poll_urls THEN task_poll_urls[task_id] ELSE "p1"

\* dict.get(task_id)
PollUrlOf(task_id) ==
    IF task_id \in DOMAIN task_poll_urls THEN task_poll_urls[task_id] ELSE NoneVal

\* the exception of a handle with no poll URL: poll_image / poll_video
\* (single) and _poll_one (batch) word it differently
UnknownHandleError(op, task_id) ==
    IF op = "poll_tasks_parallel"
    THEN Msg("No poll URL for task", task_id, "", 0)
    ELSE Msg("No poll URL stored for Replicate task", task_id, op, 0)

\* the lookup of poll_image / poll_video / _poll_one and the entry of
\* _poll_prediction: start_time = time.time(), retry_count = 0
EnterPoll(op, task_id, t) ==
    IF Falsy(PollUrlOf(task_id))
    THEN Activation("raised", task_id, t, t, 0, Raised(UnknownHandleError(op, task_id)), 0, NoResponse, "pending")
    ELSE Activation("check", task_id, t, t, 0, Running, 0, NoResponse, "pending")

TerminalPcs == {"returned", "raised"}

Init ==
    /\ task_poll_urls = <<>>
    /\ issued = {}
    /\ wavespeed_task_poll_urls = <<>>
    /\ now = 0
    /\ call = NoCall
    /\ main_pc = "idle"
    /\ loops = <<>>
    /\ ret = Running
    /\ futures = <<>>
    /\ queue = <<>>
    /\ worker = <<>>
    /\ completed = <<>>
    /\ results = <<>>
    /\ yielded = {}

----------------------------------------------------------------------------
(* submit_image / submit_video *)

_IMAGE_MODELS == {"flux-schnell", "flux-dev"}
_VIDEO_MODELS == {"ltx-video", "wan-2.1", "cogvideox", "minimax-video"}

\* the model names a caller passes: one the adapter serves per kind, and one
\* it does not
SubmitModels == {"flux-schnell", "ltx-video", "gpt-image-1.5"}

\* the vendor's answer to the POST: status code, data["id"], data["urls"]["get"]
SubmitResponses ==
    [code : {201, 500}, id : VendorIds \cup {Missing}, get : {"p1", Missing}]

\* _submit_prediction: `if response.status_code not in (200, 201)`
SubmitRejected(resp) == resp.code \notin {200, 201}

\* _submit_prediction: `if not task_id or not poll_url`
SubmitIncomplete(resp) ==
    Falsy(DictGet(resp.id, NoneVal)) \/ Falsy(DictGet(resp.get, NoneVal))

\* the submit functions without the `if not model_path` test
SupportedAny(kind, model) == TRUE

\* `model_path = _IMAGE_MODELS.get(model)` / `_VIDEO_MODELS.get(model)` and
\* `if not model_path`: FALSE when the ValueError is raised
Supported(kind, model) ==
    model \in (IF kind = "image" THEN _IMAGE_MODELS ELSE _VIDEO_MODELS)

\* the submit functions without the write to _task_poll_urls
RecordNothing(urls, task_id, poll_url) == urls

\* `_task_poll_urls[task_info["task_id"]] = task_info["poll_url"]`
Record(urls, task_id, poll_url) ==
    [h \in DOMAIN urls \cup {task_id} |-> IF h = task_id THEN poll_url ELSE urls[h]]

\* what submit returns: the task id (a string), held in the task_id field
HandleResult(task_id) ==
    [status |-> Missing, task_id |-> task_id, result_url |-> Missing, error |-> NoMsg]

\* submit_image (kind "image") / submit_video (kind "video") up to the
\* requests.post of _submit_prediction: the ValueError for a model the
\* adapter does not serve, or the request goes out
SubmitCall(kind, model) ==
    /\ main_pc = "idle"
    /\ call' = [NoCall EXCEPT !.op = IF kind = "image" THEN "submit_image" ELSE "submit_video",
                              !.model = model, !.provider = "replicate"]
    /\ IF ~Supported(kind, model)
       THEN /\ ret' = Raised(Msg("Replicate doesn't support model", kind, model, 0))
            /\ UNCHANGED main_pc
       ELSE /\ ret' = Running
            /\ main_pc' = "post"
    /\ UNCHANGED <<adapter, now, loops, batch>>

\* requests.post returns resp: the checks of _submit_prediction, the write
\* to _task_poll_urls and the return of the task id
SubmitReceive(resp) ==
    /\ main_pc = "post"
    /\ IF SubmitRejected(resp)
       THEN /\ ret' = Raised(Msg("Replicate API error", "body", "", resp.code))
            /\ UNCHANGED adapter
       ELSE IF SubmitIncomplete(resp)
       THEN /\ ret' = Raised(Msg("Missing id or poll URL in Replicate response:", "", "", 0))
            /\ UNCHANGED adapter
       ELSE /\ task_poll_urls' = Record(task_poll_urls, resp.id, resp.get)
            /\ issued' = issued \cup {resp.id}
            /\ ret' = Returned(HandleResult(resp.id))
            /\ UNCHANGED wavespeed_task_poll_urls
    /\ main_pc' = "idle"
    /\ UNCHANGED <<now, call, loops, batch>>

----------------------------------------------------------------------------
(* poll_image / poll_video and the steps of _poll_prediction *)

PollMaxWaits == {-1, 0, 1, 2, 3, MaxWaitPoll}
PollIntervals == 1 .. MaxPollInterval
Latencies == 0 .. MaxLatency

\* the call: look the handle up and enter the loop
Poll(op, task_id, max_wait, poll_interval, quiet) ==
    /\ main_pc = "idle"
    /\ main_pc' = "poll"
    /\ call' = [NoCall EXCEPT !.op = op, !.task_ids = <<task_id>>, !.max_wait = max_wait,
                              !.poll_interval = poll_interval, !.t0 = now]
    /\ loops' = (0 :> [EnterPoll(op, task_id, now) EXCEPT !.quiet = quiet])
    /\ ret' = Running
    /\ UNCHANGED <<adapter, now, batch>>

\* the activation can evaluate the while condition / has its response
CanCheck(l) == l.pc = "check" \/ (l.pc = "sleep" /\ l.wake <= now)
CanReceive(l) == l.pc = "await" /\ l.wake <= now

\* the while condition at time t: raise the timeout, or issue requests.get,
\* which comes back after d seconds
Checked(l, t, d, max_wait) ==
    IF DeadlineOpen(t, l.start_time, max_wait)
    THEN [l EXCEPT !.pc = "await", !.wake = t + d, !.last = NoResponse, !.reported = ""]
    ELSE [l EXCEPT !.pc = "raised", !.out = Raised(TimeoutError(max_wait)),
                   !.last = NoResponse, !.reported = ""]

\* requests.get returns resp (or raises) at time t: the rest of the iteration
Received(l, t, resp, poll_interval) ==
    LET s == HandleResponse(l.retry_count, l.task_id, resp)
        c == IF resp.raises THEN l.consec
             ELSE IF resp.code = 200 THEN 0 ELSE l.consec + 1
        h == IF resp.raises THEN l.hist
             ELSE IF resp.code # 200 THEN (IF l.hist = "pending" THEN "erred" ELSE l.hist)
             ELSE IF l.retry_count = MAX_RETRIES THEN "spared" ELSE l.hist
    IN
    IF s.next = "sleep"
    THEN [l EXCEPT !.pc = "sleep", !.wake = t + SleepFor(l.quiet, poll_interval),
                   !.retry_count = s.retry_count,
                   !.consec = c, !.last = resp, !.hist = h,
                   !.reported = Reported(l.quiet, resp, s)]
    ELSE [l EXCEPT !.pc = IF s.next = "return" THEN "returned" ELSE "raised",
                   !.retry_count = s.retry_count,
                   !.out = IF s.next = "return" THEN Returned(s.result) ELSE Raised(s.exc),
                   !.consec = c, !.last = resp, !.hist = h,
                   !.reported = Reported(l.quiet, resp, s)]

\* one activation evaluates the while condition
LoopCheck(i, d) ==
    /\ i \in DOMAIN loops
    /\ CanCheck(loops[i])
    /\ loops' = [loops EXCEPT ![i] = Checked(loops[i], now, d, call.max_wait)]
    /\ UNCHANGED <<adapter, now, call, main_pc, ret, batch>>

\* one activation gets the response of its requests.get
LoopReceive(i, resp) ==
    /\ i \in DOMAIN loops
    /\ CanReceive(loops[i])
    /\ loops' = [loops EXCEPT ![i] = Received(loops[i], now, resp, call.poll_interval)]
    /\ UNCHANGED <<adapter, now, call, main_pc, ret, batch>>

\* a poll that removes the handle when it is over: _task_poll_urls.pop in
\* place of _task_poll_urls.get
PollFinishForget ==
    /\ main_pc = "poll"
    /\ loops[0].pc \in TerminalPcs
    /\ ret' = loops[0].out
    /\ main_pc' = "done"
    /\ task_poll_urls' = [h \in DOMAIN task_poll_urls \ {loops[0].task_id} |->
                              task_poll_urls[h]]
    /\ UNCHANGED <<issued, wavespeed_task_poll_urls, now, call, loops, batch>>

\* poll_image / poll_video return what _poll_prediction returned, or raise
\* what it raised
PollFinish ==
    /\ main_pc = "poll"
    /\ loops[0].pc \in TerminalPcs
    /\ ret' = loops[0].out
    /\ main_pc' = "done"
    /\ UNCHANGED <<adapter, now, call, loops, batch>>

\* the caller goes on: the finished call's frame is gone.  The clock is only
\* ever compared with a time read in the same call, so it is rebased.
Release ==
    /\ main_pc = "done"
    /\ main_pc' = "idle"
    /\ call' = NoCall
    /\ loops' = <<>>
    /\ now' = 0
    /\ futures' = <<>>
    /\ queue' = <<>>
    /\ worker' = <<>>
    /\ completed' = <<>>
    /\ results' = <<>>
    /\ yielded' = {}
    /\ UNCHANGED <<adapter, ret>>

\* a thread inside requests.get or time.sleep
Blocked(l) == l.pc \in {"await", "sleep"} /\ l.wake > now

\* a thread with a step to take at the current time
Runnable(l) == l.pc = "check" \/ (l.pc \in {"await", "sleep"} /\ l.wake <= now)

----------------------------------------------------------------------------
(* poll_tasks_parallel *)

\* d[k] = v
DictSet(d, k, v) == [x \in DOMAIN d \cup {k} |-> IF x = k THEN v ELSE d[x]]

BatchMaxWaits == {MaxWaitBatch}
BatchIntervals == {1}
BatchLatencies == 0 .. MaxLatencyBatch

\* the task_ids lists of a call
RECURSIVE SeqsUpTo(_, _)
SeqsUpTo(S, n) ==
    IF n = 0 THEN {<<>>}
    ELSE LET shorter == SeqsUpTo(S, n - 1) IN
         shorter \cup {Append(q, x) : q \in {r \in shorter : Len(r) = n - 1}, x \in S}

TaskIdLists == SeqsUpTo(Handles, MaxHandles)

\* the vendor's answers during a batch: one of each class
BatchResponses ==
    { Response(TRUE, 0, FALSE, Missing, NoOutput, Missing),
      Response(FALSE, 200, TRUE, "succeeded", Output("list", <<"u1", "u2">>, ""), Missing),
      Response(FALSE, 200, TRUE, "failed", NoOutput, "boom"),
      Response(FALSE, 200, TRUE, "processing", NoOutput, Missing) }

\* `max_workers = total`: a pool without the cap
MaxWorkersUncapped(total) == total

\* `max_workers = min(total, 20)`
MaxWorkers(total) == Min(total, WorkerCap)

Future(state, out) == [state |-> state, out |-> out]

\* the function without the `if not task_ids` test
EmptyBatchNever(task_ids) == FALSE

\* `if not task_ids`
EmptyBatch(task_ids) == task_ids = <<>>

\* the call up to the creation of the executor
PollTasksParallel(task_ids, max_wait, poll_interval) ==
    /\ main_pc = "idle"
    /\ call' = [NoCall EXCEPT !.op = "poll_tasks_parallel", !.task_ids = task_ids,
                              !.max_wait = max_wait, !.poll_interval = poll_interval,
                              !.t0 = now]
    /\ IF EmptyBatch(task_ids)
       THEN /\ main_pc' = "done"
            /\ ret' = Returned(NoResult)
            /\ worker' = <<>>
       ELSE /\ main_pc' = "submit"
            /\ ret' = Running
            /\ worker' = [w \in 1 .. MaxWorkers(Len(task_ids)) |-> 0]
    /\ futures' = <<>>
    /\ queue' = <<>>
    /\ completed' = <<>>
    /\ results' = <<>>
    /\ yielded' = {}
    /\ loops' = <<>>
    /\ UNCHANGED <<adapter, now>>

\* executor.submit(_poll_one, tid) for the next tid of task_ids
ExecutorSubmit ==
    /\ main_pc = "submit"
    /\ LET k == Len(futures) + 1 IN
       /\ futures' = Append(futures, Future("pending", Running))
       /\ queue' = Append(queue, k)
       /\ main_pc' = IF k = Len(call.task_ids) THEN "collect" ELSE "submit"
    /\ UNCHANGED <<adapter, now, call, loops, ret, worker, completed, results, yielded>>

\* an idle worker thread takes the oldest queued work item and runs
\* _poll_one up to the entry of _poll_prediction.  The threads are alike:
\* of the idle ones, the one with the least index is taken to get the item.
WorkerTake(w) ==
    /\ w \in DOMAIN worker
    /\ worker[w] = 0
    /\ \A v \in DOMAIN worker : v < w => worker[v] # 0
    /\ queue # <<>>
    /\ LET i == Head(queue) IN
       /\ queue' = Tail(queue)
       /\ worker' = [worker EXCEPT ![w] = i]
       /\ futures' = [futures EXCEPT ![i].state = "running"]
       /\ loops' = (i :> [EnterPoll(call.op, call.task_ids[i], now) EXCEPT !.quiet = TRUE])
                    @@ loops
    /\ UNCHANGED <<adapter, now, call, main_pc, ret, completed, results, yielded>>

\* _poll_one after _poll_prediction returned: completed.append(tid)
PollOneAppend(w) ==
    /\ w \in DOMAIN worker
    /\ worker[w] # 0
    /\ LET i == worker[w] IN
       /\ futures[i].state = "running"
       /\ loops[i].pc = "returned"
       /\ completed' = Append(completed, loops[i].task_id)
       /\ futures' = [futures EXCEPT ![i].state = "appended"]
    /\ UNCHANGED <<adapter, now, call, main_pc, loops, ret, queue, worker, results, yielded>>

\* the work item ends: _poll_one prints len(completed) and returns, or an
\* exception left it; the future gets the result or the exception and the
\* thread goes back to the queue
WorkerFinish(w) ==
    /\ w \in DOMAIN worker
    /\ worker[w] # 0
    /\ LET i == worker[w] IN
       /\ \/ futures[i].state = "appended"
          \/ futures[i].state = "running" /\ loops[i].pc = "raised"
       /\ futures' = [futures EXCEPT ![i] = Future("finished", loops[i].out)]
       /\ loops' = [j \in DOMAIN loops \ {i} |-> loops[j]]
       /\ worker' = [worker EXCEPT ![w] = 0]
    /\ UNCHANGED <<adapter, now, call, main_pc, ret, queue, completed, results, yielded>>

\* the body of the for loop without the `except Exception` branch
CollectBodyNoExcept(tid, out) ==
    IF out.kind = "return"
    THEN [escapes |-> FALSE, append |-> FALSE, result |-> out.value]
    ELSE [escapes |-> TRUE, append |-> FALSE, result |-> NoResult]

\* the `except Exception` branch without its completed.append(tid)
CollectBodyNoAppend(tid, out) ==
    IF out.kind = "return"
    THEN [escapes |-> FALSE, append |-> FALSE, result |-> out.value]
    ELSE [escapes |-> FALSE, append |-> FALSE, result |-> ErrorResult(tid, out.exc)]

\* the body of the for loop for a future that ended with `out`:
\* `try: results[tid] = future.result()` and the `except Exception` branch.
\* `escapes` is the exception the body lets through, `append` whether it
\* appends tid to completed, `result` what it stores under tid
CollectBody(tid, out) ==
    IF out.kind = "return"
    THEN [escapes |-> FALSE, append |-> FALSE, result |-> out.value]
    ELSE [escapes |-> FALSE, append |-> TRUE, result |-> ErrorResult(tid, out.exc)]

\* a for loop that is left after its first round
ExhaustedAfterFirst == yielded # {}

\* as_completed has yielded every future
Exhausted == yielded = DOMAIN futures

\* one round of `for future in as_completed(futures)`: a finished future
\* not yet yielded, and the body of the for loop.  An exception the body
\* lets through leaves the for loop for the exit of the with block.
Collect(i) ==
    /\ main_pc = "collect"
    /\ ~Exhausted
    /\ i \in DOMAIN futures
    /\ i \notin yielded
    /\ futures[i].state = "finished"
    /\ yielded' = yielded \cup {i}
    /\ LET tid == call.task_ids[i]
           body == CollectBody(tid, futures[i].out)
       IN
       IF body.escapes
       THEN /\ main_pc' = "exit"
            /\ ret' = Raised(futures[i].out.exc)
            /\ UNCHANGED <<completed, results>>
       ELSE /\ completed' = IF body.append THEN Append(completed, tid) ELSE completed
            /\ results' = DictSet(results, tid, body.result)
            /\ UNCHANGED <<main_pc, ret>>
    /\ UNCHANGED <<adapter, now, call, loops, futures, queue, worker>>

\* the for loop is over; the exit of the with block waits for the worker
\* threads (shutdown(wait=True)), then `return results`, or the exception
\* that left the for loop goes on to the caller
BatchReturn ==
    /\ \/ main_pc = "collect" /\ Exhausted
       \/ main_pc = "exit"
    /\ queue = <<>>
    /\ \A w \in DOMAIN worker : worker[w] = 0
    /\ main_pc' = "done"
    /\ ret' = IF main_pc = "exit" THEN ret ELSE Returned(NoResult)
    /\ UNCHANGED <<adapter, now, call, loops, batch>>

\* a worker thread with a step to take
WorkerRunnable(w) ==
    IF worker[w] = 0 THEN queue # <<>>
    ELSE Runnable(loops[worker[w]]) \/ loops[worker[w]].pc \in TerminalPcs

\* the calling thread has a step to take
MainRunnable ==
    \/ main_pc \in {"submit", "done", "idle", "post"}
    \/ main_pc = "poll" /\ (Runnable(loops[0]) \/ loops[0].pc \in TerminalPcs)
    \/ main_pc = "pair" /\ \E i \in DOMAIN loops :
                                Runnable(loops[i]) \/ loops[i].pc \in TerminalPcs
    \/ main_pc = "collect" /\
           \/ Exhausted
           \/ \E i \in DOMAIN futures : i \notin yielded /\ futures[i].state = "finished"
    \/ main_pc = "exit" /\ queue = <<>> /\ \A w \in DOMAIN worker : worker[w] = 0

\* a second passes: every thread is inside a blocking call (requests.get,
\* time.sleep, the wait of as_completed, the wait on the work queue)
Tick ==
    /\ ~MainRunnable
    /\ \A w \in DOMAIN worker : ~WorkerRunnable(w)
    /\ \E i \in DOMAIN loops : Blocked(loops[i])
    /\ now' = now + 1
    /\ UNCHANGED <<adapter, call, main_pc, loops, ret, batch>>

NextPoll ==
    \/ \E kind \in {"image", "video"}, model \in SubmitModels : SubmitCall(kind, model)
    \/ \E resp \in SubmitResponses : SubmitReceive(resp)
    \/ \E op \in {"poll_image", "poll_video"}, h \in Handles,
          mw \in PollMaxWaits, pi \in PollIntervals, quiet \in BOOLEAN :
           Poll(op, h, mw, pi, quiet)
    \/ \E d \in Latencies : LoopCheck(0, d)
    \/ \E resp \in PollResponses : LoopReceive(0, resp)
    \/ PollFinish
    \/ Release
    \/ Tick

SpecPoll == Init /\ [][NextPoll]_vars

NextBatch ==
    \/ \E kind \in {"image", "video"}, model \in SubmitModels : SubmitCall(kind, model)
    \/ \E resp \in SubmitResponses : SubmitReceive(resp)
    \/ \E ids \in TaskIdLists, mw \in BatchMaxWaits, pi \in BatchIntervals :
           PollTasksParallel(ids, mw, pi)
    \/ ExecutorSubmit
    \/ \E w \in DOMAIN worker : WorkerTake(w)
    \/ \E i \in 1 .. MaxHandles, d \in BatchLatencies : LoopCheck(i, d)
    \/ \E i \in 1 .. MaxHandles, resp \in BatchResponses : LoopReceive(i, resp)
    \/ \E w \in DOMAIN worker : PollOneAppend(w)
    \/ \E w \in DOMAIN worker : WorkerFinish(w)
    \/ \E i \in 1 .. MaxHandles : Collect(i)
    \/ BatchReturn
    \/ Release
    \/ Tick

SpecBatch == Init /\ [][NextBatch]_vars

----------------------------------------------------------------------------
(* Properties of poll_tasks_parallel, under SpecBatch *)

\* a poll_tasks_parallel call has returned or raised
BatchDone == main_pc = "done" /\ call.op = "poll_tasks_parallel"

\* the distinct handles of the call
TaskIdSet == {call.task_ids[i] : i \in DOMAIN call.task_ids}

\* the positions of the task_ids list that hold the handle tid
Occurrences(tid) == {i \in DOMAIN call.task_ids : call.task_ids[i] = tid}

\* what the for loop stores for the i-th future
EntryOf(i) ==
    IF futures[i].out.kind = "return" THEN futures[i].out.value
    ELSE ErrorResult(call.task_ids[i], futures[i].out.exc)

\* every submitted future ran to its end
AllFinished ==
    /\ Len(futures) = Len(call.task_ids)
    /\ \A i \in DOMAIN futures :
          futures[i].state = "finished" /\ futures[i].out.kind \in {"return", "raise"}

\* C1 as stated: when poll_tasks_parallel is over it has raised nothing,
\* every poll loop of the list ran to its own end, and the handle of every
\* loop that ended by raising has an entry with status "error" that carries
\* the message of a failure of that handle -- for any list of handles.
C1_FailureIsolationAnyList ==
    BatchDone /\ call.task_ids # <<>> =>
        /\ ret.kind = "return"
        /\ AllFinished
        /\ \A i \in DOMAIN futures :
              LET tid == call.task_ids[i] IN
              futures[i].out.kind = "raise" =>
                  /\ tid \in DOMAIN results
                  /\ results[tid].status = "error"
                  /\ \E j \in Occurrences(tid) :
                        /\ futures[j].out.kind = "raise"
                        /\ results[tid] = ErrorResult(tid, futures[j].out.exc)

\* C1, amended: when poll_tasks_parallel is over it has raised nothing and
\* every poll loop of the list ran to its own end; a loop that ended by
\* raising has the error entry with its message under its handle when that
\* handle occurs once in the list, and a handle that occurs several times
\* holds the entry of one of its loops.
C1_FailureIsolation ==
    BatchDone /\ call.task_ids # <<>> =>
        /\ ret.kind = "return"
        /\ AllFinished
        /\ \A i \in DOMAIN futures :
              LET tid == call.task_ids[i] IN
              /\ tid \in DOMAIN results
              /\ \E j \in Occurrences(tid) : results[tid] = EntryOf(j)
              /\ futures[i].out.kind = "raise" /\ Occurrences(tid) = {i} =>
                     results[tid] = ErrorResult(tid, futures[i].out.exc)

\* a batch is over in which the loop of one handle raised and the loop of
\* another handle returned, each with its entry in the mapping
C1_Witness ==
    /\ BatchDone
    /\ \E i, j \in DOMAIN futures :
          /\ call.task_ids[i] # call.task_ids[j]
          /\ futures[i].out.kind = "raise"
          /\ futures[j].out.kind = "return"
          /\ results[call.task_ids[i]].status = "error"
          /\ results[call.task_ids[j]].status = "success"

\* C2: when poll_tasks_parallel is over, no poll loop is running or queued:
\* every future has finished and has been collected, the worker threads are
\* idle, and the keys of the returned mapping are exactly the distinct
\* handles of the list (none for the empty list), each holding a success or
\* error entry for that handle.
C2_NoEarlyReturn ==
    BatchDone =>
        /\ ret.kind = "return"
        /\ loops = <<>>
        /\ queue = <<>>
        /\ \A w \in DOMAIN worker : worker[w] = 0
        /\ Len(futures) = Len(call.task_ids)
        /\ \A i \in DOMAIN futures : futures[i].state = "finished"
        /\ yielded = DOMAIN futures
        /\ DOMAIN results = TaskIdSet
        /\ \A k \in DOMAIN results :
              results[k].task_id = k /\ results[k].status \in {"success", "error"}

\* a batch is over whose list repeats a handle and holds a handle that was
\* never issued: three loops ran, the mapping has two keys
C2_Witness ==
    /\ BatchDone
    /\ Len(call.task_ids) = 3
    /\ Cardinality(TaskIdSet) = 2
    /\ "zz" \in TaskIdSet
    /\ Cardinality(DOMAIN results) = 2
    /\ \E i \in DOMAIN futures : futures[i].out.kind = "return"

\* the futures whose _poll_one is being run by a worker thread
ActiveFutures == {i \in DOMAIN futures : futures[i].state \in {"running", "appended"}}

\* the cap on concurrent loops of a call of n handles
LoopCap == IF Len(call.task_ids) < WorkerCap THEN Len(call.task_ids) ELSE WorkerCap

\* C3: during poll_tasks_parallel at most min(n, cap) poll loops exist at
\* any instant; the other submitted tasks sit in the queue in submission
\* order, and a task beyond the first min(n, cap) has started only if enough
\* earlier tasks have run their whole loop and finished.
C3_ConcurrencyBound ==
    call.op = "poll_tasks_parallel" =>
        /\ Cardinality(ActiveFutures) <= LoopCap
        /\ Cardinality(DOMAIN loops) <= LoopCap
        /\ \A i \in DOMAIN loops : i \in ActiveFutures
        /\ \A i \in DOMAIN futures :
              futures[i].state = "pending" <=> \E k \in DOMAIN queue : queue[k] = i
        /\ \A k \in DOMAIN queue : k > 1 => queue[k - 1] < queue[k]
        /\ \A i \in DOMAIN futures :
              futures[i].state # "pending" /\ i > LoopCap =>
                  Cardinality({j \in 1 .. (i - 1) : futures[j].state = "finished"})
                      >= i - LoopCap

\* more handles than workers: every worker is inside a poll loop that waits
\* for the vendor, and a task is still queued
C3_Witness ==
    /\ call.op = "poll_tasks_parallel"
    /\ Len(call.task_ids) > WorkerCap
    /\ Cardinality(ActiveFutures) = WorkerCap
    /\ \A i \in ActiveFutures : i \in DOMAIN loops /\ loops[i].pc \in {"await", "sleep"}
    /\ queue # <<>>

\* the bound on one poll loop's duration: max_wait, one poll_interval and
\* one round trip of requests.get
LoopBound == call.max_wait + call.poll_interval + MaxLatencyBatch

\* the rounds a pool of WorkerCap threads needs for n tasks
Rounds == (Len(call.task_ids) + WorkerCap - 1) \div WorkerCap

\* C5 as stated: for any number of handles, poll_tasks_parallel is over
\* within a single max_wait plus one poll_interval (and the round trip of a
\* query) of its call.
C5_BatchWithinOneMaxWait ==
    BatchDone => now - call.t0 <= LoopBound

\* C5, amended: poll_tasks_parallel is over within ceil(n / cap) times the
\* bound of one poll loop (max_wait plus one poll_interval plus one round
\* trip): a single such bound when the handles are no more than the workers,
\* and one more for every further round of queued tasks.
C5_BatchWithinRounds ==
    BatchDone /\ call.task_ids # <<>> => now - call.t0 < Rounds * LoopBound

\* a batch of more handles than workers is over later than one loop's bound
C5_Witness ==
    /\ BatchDone
    /\ Len(call.task_ids) > WorkerCap
    /\ now - call.t0 > LoopBound
    /\ ret.kind = "return"

----------------------------------------------------------------------------
(* Properties of the poll loop and the single poll, under SpecPoll *)

\* the single poll's activation exists
InPoll == 0 \in DOMAIN loops

\* an HTTP response with a status code other than 200
IsHttpError(r) == ~r.raises /\ r.code \in HttpErrorCodes

\* a 200 response with a JSON body
IsJson(r) == ~r.raises /\ r.code = 200 /\ r.json

\* the output is a non-empty list / a non-empty string
UsableList(o) == o.kind = "list" /\ Len(o.items) >= 1
UsableStr(o) == o.kind = "str" /\ o.text # ""

RetriesMsg == Msg("Poll failed after retries:", "body", "", 0)

\* a finished activation takes no further step: no query, no sleep
TerminalAbsorbs ==
    InPoll /\ loops[0].pc \in TerminalPcs /\ 0 \in DOMAIN loops' => loops'[0] = loops[0]

\* C4: a loop that has only ever got 200 responses with a non-terminal
\* status is, at any instant, no later than max_wait + poll_interval after
\* its entry, and it ends with the timeout error naming max_wait.
C4_TimeoutWithinMaxWaitPlusInterval ==
    InPoll =>
        LET l == loops[0] IN
        l.hist = "pending" /\ (l.pc \notin TerminalPcs \/ l.out = Raised(TimeoutError(call.max_wait))) =>
            now - l.start_time <= call.max_wait + call.poll_interval

\* C6, the states: after an HTTP error response the loop sleeps while the
\* errors in a row are at most 10, and has raised "Poll failed after
\* retries" at the 11th; it raises that error in no other case.
C6_Retry ==
    InPoll =>
        LET l == loops[0] IN
        /\ IsHttpError(l.last) =>
               IF l.consec <= MAX_RETRIES
               THEN l.consec >= 1 /\ l.pc = "sleep" /\ l.out = Running
               ELSE l.consec = MAX_RETRIES + 1 /\ l.pc = "raised" /\ l.out = Raised(RetriesMsg)
        /\ l.out.exc.text = "Poll failed after retries:" =>
               IsHttpError(l.last) /\ l.consec = MAX_RETRIES + 1

\* C6, the steps: the sleep after an HTTP error response lasts poll_interval,
\* after it the loop issues another query unless the deadline has passed,
\* and a loop that has ended makes no further query.
C6_RetryStep ==
    InPoll /\ 0 \in DOMAIN loops' =>
        LET l == loops[0]
            m == loops'[0]
        IN
        /\ l.pc = "await" /\ IsHttpError(m.last) /\ m.consec <= MAX_RETRIES =>
               m.pc = "sleep" /\ m.wake = now + call.poll_interval
        /\ l.pc = "sleep" /\ m.pc # "sleep" =>
               /\ now >= l.wake
               /\ IF now - l.start_time < call.max_wait
                  THEN m.pc = "await"
                  ELSE m.out = Raised(TimeoutError(call.max_wait))
        /\ TerminalAbsorbs

\* C6: in one poll loop each of up to 10 HTTP error responses in a row is
\* followed by a sleep of poll_interval and another query; the 11th in a row
\* ends the loop with "Poll failed after retries", and no further query is
\* made.
C6_RetryBound == []C6_Retry /\ [][C6_RetryStep]_vars

\* the 11th HTTP error response in a row has ended the loop, and the single
\* poll has raised the error
C6_Witness ==
    /\ InPoll
    /\ main_pc = "done"
    /\ loops[0].consec = 11
    /\ loops[0].pc = "raised"
    /\ ret = Raised(RetriesMsg)

\* C7: the retry counter is the number of HTTP error responses since the
\* last 200 response: every 200 response with a JSON body sets it to zero,
\* so after 10 errors and a 200 response the loop takes 10 more errors and
\* raises only at the 11th after the reset.
C7_RetryCounterReset ==
    InPoll =>
        LET l == loops[0] IN
        /\ l.out.exc.text # "JSONDecodeError" => l.retry_count = l.consec
        /\ IsJson(l.last) => l.retry_count = 0
        /\ l.hist = "spared" /\ l.out.exc.text = "Poll failed after retries:" =>
               l.consec = MAX_RETRIES + 1

\* 10 errors, a 200 response with a non-terminal status, 10 more errors: the
\* loop is asleep before its next query
C7_Witness ==
    /\ InPoll
    /\ loops[0].hist = "spared"
    /\ loops[0].consec = 10
    /\ loops[0].retry_count = 10
    /\ loops[0].pc = "sleep"

\* C8: a "succeeded" response ends the loop with a success result for the
\* polled handle whose result_url is the first element of a non-empty list
\* output, or the string itself of a non-empty string output; the loop
\* returns in no other case, and the single poll returns that result.
C8_ResultExtraction ==
    InPoll =>
        LET l == loops[0]
            r == loops[0].last
        IN
        /\ IsJson(r) /\ r.status = "succeeded" /\ UsableList(r.output) =>
               l.out = Returned([status |-> "success", task_id |-> call.task_ids[1],
                                 result_url |-> Head(r.output.items), error |-> NoMsg])
        /\ IsJson(r) /\ r.status = "succeeded" /\ UsableStr(r.output) =>
               l.out = Returned([status |-> "success", task_id |-> call.task_ids[1],
                                 result_url |-> r.output.text, error |-> NoMsg])
        /\ l.pc = "returned" <=> l.out.kind = "return"
        /\ l.pc = "returned" =>
               IsJson(r) /\ r.status = "succeeded" /\ (UsableList(r.output) \/ UsableStr(r.output))
        /\ main_pc = "done" /\ l.pc = "returned" => ret = l.out

\* the vendor answered with the list u2, u1 and the single poll returned u2
C8_Witness ==
    /\ InPoll
    /\ main_pc = "done"
    /\ loops[0].last.output = Output("list", <<"u2", "u1">>, "")
    /\ ret.kind = "return"
    /\ ret.value.result_url = "u2"
    /\ ret.value.task_id = "r1"

C10_Failed ==
    InPoll =>
        LET l == loops[0]
            r == loops[0].last
        IN
        IsJson(r) /\ r.status \in {"failed", "canceled"} =>
            /\ l.pc = "raised"
            /\ l.out = Raised(Msg("Replicate prediction", r.status,
                                  IF r.error \in {Missing, NoneVal, ""} THEN r.status ELSE r.error,
                                  0))
            /\ main_pc = "done" => ret = l.out

\* C10: the first 200 response with status "failed" or "canceled" ends the
\* loop as failed, with the vendor's error text or the status itself, and
\* the loop is never retried: it makes no further query.
C10_VendorFailure == []C10_Failed /\ [][TerminalAbsorbs]_vars

\* the vendor answered "canceled" with a null error and the single poll
\* raised an exception that names the status twice
C10_Witness ==
    /\ InPoll
    /\ main_pc = "done"
    /\ loops[0].last.status = "canceled"
    /\ loops[0].last.error = NoneVal
    /\ ret = Raised(Msg("Replicate prediction", "canceled", "canceled", 0))

\* a single poll (poll_image / poll_video) is in progress or over
SinglePoll == InPoll /\ call.op \in {"poll_image", "poll_video"}

\* C11: a single poll of a handle that no submit recorded has, in every
\* state of the call, raised the unknown-handle error naming the handle at
\* the time of the call, with no vendor query issued or answered, no sleep
\* and the retry counter untouched; a poll of a recorded handle never ends
\* with that error.
C11_UnknownHandle ==
    SinglePoll =>
        LET l == loops[0]
            tid == call.task_ids[1]
        IN
        IF tid \notin DOMAIN task_poll_urls
        THEN /\ l.pc = "raised"
             /\ l.out = Raised(Msg("No poll URL stored for Replicate task", tid, call.op, 0))
             /\ l.last = NoResponse
             /\ l.retry_count = 0 /\ l.consec = 0 /\ l.hist = "pending"
             /\ now = call.t0
             /\ main_pc = "done" => ret = l.out
        ELSE /\ l.out.exc.text # "No poll URL stored for Replicate task"
             /\ ret.exc.text # "No poll URL stored for Replicate task"

\* the adapter has recorded r1, and a poll of the handle zz, which it never
\* issued, has raised the unknown-handle error
C11_Witness ==
    /\ SinglePoll
    /\ main_pc = "done"
    /\ "r1" \in DOMAIN task_poll_urls
    /\ call.task_ids = <<"zz">>
    /\ ret = Raised(Msg("No poll URL stored for Replicate task", "zz", call.op, 0))

----------------------------------------------------------------------------
(* Properties of submit_image / submit_video, under SpecPoll *)

\* the handles of the map all have a poll target that is not empty
Recorded(h) == h \in DOMAIN task_poll_urls /\ task_poll_urls[h] \notin {NoneVal, Missing, ""}

\* C12, the states: every task id a submit has returned is a key of
\* _task_poll_urls with a non-empty poll URL, and so is the id a submit has
\* just returned.
C12_Recorded ==
    /\ \A h \in issued : Recorded(h)
    /\ call.op \in {"submit_image", "submit_video"} /\ ret.kind = "return" =>
           Recorded(ret.value.task_id)

\* C12, the steps: no step of a submit or a poll removes a key of
\* _task_poll_urls or empties its poll URL.
C12_Kept ==
    \A h \in DOMAIN task_poll_urls :
        h \in DOMAIN task_poll_urls' /\ task_poll_urls'[h] \notin {NoneVal, Missing, ""}

\* C12: after any sequence of submit and poll calls every handle a submit
\* has returned is recorded with a non-empty poll URL; it is recorded in the
\* step that returns it and never deleted.
C12_HandleRecording == []C12_Recorded /\ [][C12_Kept]_vars

\* submit returned r1, and a later poll of r1 has ended with a success: the
\* handle is still recorded
C12_Witness ==
    /\ issued = {"r1"}
    /\ Recorded("r1")
    /\ main_pc = "done"
    /\ call.op \in {"poll_image", "poll_video"}
    /\ call.task_ids = <<"r1">>
    /\ ret.kind = "return"

\* the last call was a submit with a model name its function does not serve
UnsupportedSubmit ==
    \/ call.op = "submit_image" /\ call.model \notin _IMAGE_MODELS
    \/ call.op = "submit_video" /\ call.model \notin _VIDEO_MODELS

\* C13, the states: a submit with a model the function does not serve has
\* raised the unsupported-model error naming the model, and is never inside
\* requests.post; it has returned no handle.
C13_Unsupported ==
    UnsupportedSubmit =>
        /\ main_pc = "idle"
        /\ ret = Raised(Msg("Replicate doesn't support model",
                            IF call.op = "submit_image" THEN "image" ELSE "video",
                            call.model, 0))

\* C13, the steps: the step of such a submit goes from idle to idle and
\* leaves _task_poll_urls and the handles handed out as they were.
C13_UnsupportedStep ==
    UnsupportedSubmit' =>
        /\ main_pc # "post"
        /\ task_poll_urls' = task_poll_urls
        /\ issued' = issued

\* C13: submit_image / submit_video with a model name the adapter does not
\* implement fails with the unsupported-model error before any request is
\* sent, returns no handle and leaves the handle map unchanged.
C13_UnsupportedModel == []C13_Unsupported /\ [][C13_UnsupportedStep]_vars

\* a handle is recorded, and submit_image with the video model ltx-video
\* has raised the error
C13_Witness ==
    /\ task_poll_urls # <<>>
    /\ call.op = "submit_image"
    /\ call.model = "ltx-video"
    /\ ret.kind = "raise"
    /\ ret.exc.text = "Replicate doesn't support model"

----------------------------------------------------------------------------
(* The provider registry (src/tools/providers/__init__.py) *)

\* the provider modules: `from . import kie, google, wavespeed, replicate`
Module(name) == [module |-> name]
kie == Module("tools.providers.kie")
google == Module("tools.providers.google")
wavespeed == Module("tools.providers.wavespeed")
replicate == Module("tools.providers.replicate")
\* None where a module is expected
NoModule == Module(NoneVal)

\* one catalog entry: {"default": ..., "providers": {name: module}}
ModelConfig(default, providers) == [default |-> default, providers |-> providers]

IMAGE_PROVIDERS ==
    ("nano-banana" :> ModelConfig("google", ("google" :> google) @@ ("kie" :> kie)))
    @@ ("nano-banana-pro" :> ModelConfig("google", ("google" :> google) @@ ("kie" :> kie)))
    @@ ("gpt-image-1.5" :> ModelConfig("wavespeed", ("wavespeed" :> wavespeed)))
    @@ ("flux-schnell" :> ModelConfig("replicate", ("replicate" :> replicate)))
    @@ ("flux-dev" :> ModelConfig("replicate", ("replicate" :> replicate)))

VIDEO_PROVIDERS ==
    ("kling-3.0" :> ModelConfig("wavespeed", ("kie" :> kie) @@ ("wavespeed" :> wavespeed)))
    @@ ("sora-2" :> ModelConfig("wavespeed", ("wavespeed" :> wavespeed)))
    @@ ("sora-2-pro" :> ModelConfig("wavespeed", ("kie" :> kie) @@ ("wavespeed" :> wavespeed)))
    @@ ("veo-3.1" :> ModelConfig("google", ("google" :> google)))
    @@ ("ltx-video" :> ModelConfig("replicate", ("replicate" :> replicate)))
    @@ ("wan-2.1" :> ModelConfig("replicate", ("replicate" :> replicate)))
    @@ ("cogvideox" :> ModelConfig("replicate", ("replicate" :> replicate)))
    @@ ("minimax-video" :> ModelConfig("replicate", ("replicate" :> replicate)))

\* the tuple (provider_module, provider_name) a resolution returns
ProviderResult(module, name) == [provider |-> module, provider_name |-> name]

\* the ValueError for a model that is not a key of the catalog
UnknownModelError(kind, model) ==
    [text |-> "Unknown model", kind |-> kind, model |-> model]

\* the ValueError for a provider the model does not have: the requested
\* name, the model and the names it has
ProviderUnavailableError(provider_name, model, available) ==
    [text |-> "Provider not available for", provider_name |-> provider_name,
     model |-> model, available |-> available]

\* a resolution that ignores the override
ProviderNameDefault(provider_override, default) == default

\* `provider_name = provider_override or model_config["default"]`
ProviderName(provider_override, default) == PyOr(provider_override, default)

\* a lookup that falls back to the model's default provider
ProviderOfOrDefault(model_config, provider_name) ==
    IF provider_name \in DOMAIN model_config.providers
    THEN model_config.providers[provider_name]
    ELSE model_config.providers[model_config.default]

\* `provider = model_config["providers"].get(provider_name)`
ProviderOf(model_config, provider_name) ==
    IF provider_name \in DOMAIN model_config.providers
    THEN model_config.providers[provider_name]
    ELSE NoModule

\* the body the two functions share, on their catalog
GetProvider(kind, catalog, model, provider_override) ==
    IF model \notin DOMAIN catalog
    THEN [kind |-> "raise", value |-> NoResult, exc |-> UnknownModelError(kind, model)]
    ELSE LET model_config == catalog[model]
             provider_name == ProviderName(provider_override, model_config.default)
             provider == ProviderOf(model_config, provider_name)
         IN
         IF provider = NoModule
         THEN [kind |-> "raise", value |-> NoResult,
               exc |-> ProviderUnavailableError(provider_name, model,
                                                DOMAIN model_config.providers)]
         ELSE [kind |-> "return", value |-> ProviderResult(provider, provider_name),
               exc |-> NoMsg]

get_image_provider(model, provider_override) ==
    GetProvider("image", IMAGE_PROVIDERS, model, provider_override)

get_video_provider(model, provider_override) ==
    GetProvider("video", VIDEO_PROVIDERS, model, provider_override)

\* the model names and overrides of a call: every catalog key, a name of no
\* catalog, the empty name; no override, every provider name, a name of no
\* provider, the empty string
ResolveModels == DOMAIN IMAGE_PROVIDERS \cup DOMAIN VIDEO_PROVIDERS \cup {"dall-e", ""}
ResolveOverrides == {NoneVal, "", "google", "kie", "wavespeed", "replicate", "fal"}

\* a call of get_image_provider / get_video_provider
Resolve(op, model, provider_override) ==
    /\ main_pc = "idle"
    /\ call' = [NoCall EXCEPT !.op = op, !.model = model, !.override = provider_override]
    /\ ret' = IF op = "get_image_provider" THEN get_image_provider(model, provider_override)
              ELSE get_video_provider(model, provider_override)
    /\ UNCHANGED <<adapter, now, main_pc, loops, batch>>

NextRegistry ==
    \E op \in {"get_image_provider", "get_video_provider"}, model \in ResolveModels,
       provider_override \in ResolveOverrides : Resolve(op, model, provider_override)

SpecRegistry == Init /\ [][NextRegistry]_vars

----------------------------------------------------------------------------
(* Properties of the registry, under SpecRegistry *)

\* a resolution has been called; its catalog
Resolved == call.op \in {"get_image_provider", "get_video_provider"}
CatalogOf(op) == IF op = "get_image_provider" THEN IMAGE_PROVIDERS ELSE VIDEO_PROVIDERS

\* C14: every catalog entry's default is one of its providers; for a
\* registered model a resolution without override returns the module and
\* name of the default, and one with an override among the model's
\* providers returns the module and name of the override.
C14_DefaultResolution ==
    /\ \A catalog \in {IMAGE_PROVIDERS, VIDEO_PROVIDERS} : \A m \in DOMAIN catalog :
           catalog[m].default \in DOMAIN catalog[m].providers
    /\ Resolved /\ call.model \in DOMAIN CatalogOf(call.op) =>
           LET cfg == CatalogOf(call.op)[call.model] IN
           /\ call.override = NoneVal =>
                  /\ ret.kind = "return"
                  /\ ret.value = ProviderResult(cfg.providers[cfg.default], cfg.default)
                  /\ ret.value.provider_name \in DOMAIN cfg.providers
           /\ call.override \in DOMAIN cfg.providers =>
                  /\ ret.kind = "return"
                  /\ ret.value = ProviderResult(cfg.providers[call.override], call.override)

\* kling-3.0 resolved with the override kie, which is not its default
C14_Witness ==
    /\ call.op = "get_video_provider"
    /\ call.model = "kling-3.0"
    /\ call.override = "kie"
    /\ ret.kind = "return"
    /\ ret.value = ProviderResult(kie, "kie")

\* C15 as stated: for a registered model, every given override (any value
\* but None) that is not one of the model's providers makes the resolution
\* fail with the provider-unavailable error naming the override and the
\* model's providers; a model that is no key of the catalog fails with the
\* unknown-model error whatever the override.
C15_RegistryErrorsAnyOverride ==
    Resolved =>
        IF call.model \notin DOMAIN CatalogOf(call.op)
        THEN ret = [kind |-> "raise", value |-> NoResult,
                    exc |-> UnknownModelError(IF call.op = "get_image_provider" THEN "image"
                                              ELSE "video", call.model)]
        ELSE LET cfg == CatalogOf(call.op)[call.model] IN
             call.override # NoneVal /\ call.override \notin DOMAIN cfg.providers =>
                 ret = [kind |-> "raise", value |-> NoResult,
                        exc |-> ProviderUnavailableError(call.override, call.model,
                                                         DOMAIN cfg.providers)]

\* C15, amended: the same for every override that is neither None nor the
\* empty string; with the empty string the resolution takes the default, as
\* with None.
C15_RegistryErrors ==
    Resolved =>
        IF call.model \notin DOMAIN CatalogOf(call.op)
        THEN ret = [kind |-> "raise", value |-> NoResult,
                    exc |-> UnknownModelError(IF call.op = "get_image_provider" THEN "image"
                                              ELSE "video", call.model)]
        ELSE LET cfg == CatalogOf(call.op)[call.model] IN
             /\ call.override \notin {NoneVal, ""} /\ call.override \notin DOMAIN cfg.providers =>
                    ret = [kind |-> "raise", value |-> NoResult,
                           exc |-> ProviderUnavailableError(call.override, call.model,
                                                            DOMAIN cfg.providers)]
             /\ call.override = "" =>
                    ret.kind = "return" /\
                    ret.value = ProviderResult(cfg.providers[cfg.default], cfg.default)

\* sora-2 with the override kie, a provider of other models, has raised
\* the provider-unavailable error
C15_Witness ==
    /\ call.op = "get_video_provider"
    /\ call.model = "sora-2"
    /\ call.override = "kie"
    /\ ret.kind = "raise"
    /\ ret.exc = ProviderUnavailableError("kie", "sora-2", {"wavespeed"})

----------------------------------------------------------------------------
(* Further properties of poll_tasks_parallel, under SpecBatch *)

\* C16: poll_tasks_parallel with an empty list is over in the step of the
\* call: it has returned the empty mapping at the time of the call, with no
\* worker thread, no future, no queued task, no poll loop and so no vendor
\* query.
C16_EmptyBatch ==
    call.op = "poll_tasks_parallel" /\ call.task_ids = <<>> =>
        /\ main_pc = "done"
        /\ ret.kind = "return"
        /\ results = <<>>
        /\ now = call.t0
        /\ worker = <<>>
        /\ futures = <<>>
        /\ queue = <<>>
        /\ loops = <<>>
        /\ completed = <<>>
        /\ yielded = {}

\* a handle is recorded and poll_tasks_parallel([]) has returned
C16_Witness ==
    /\ call.op = "poll_tasks_parallel"
    /\ call.task_ids = <<>>
    /\ task_poll_urls # <<>>
    /\ main_pc = "done"
    /\ ret.kind = "return"
    /\ results = <<>>

----------------------------------------------------------------------------
(* Two runs of one poll side by side: the same call with quiet=False (slot
   0) and quiet=True (slot 1), on the same clock, each query of the one
   answered like the same query of the other *)

\* the two calls
PairPoll(op, task_id, max_wait, poll_interval) ==
    /\ main_pc = "idle"
    /\ main_pc' = "pair"
    /\ call' = [NoCall EXCEPT !.op = op, !.task_ids = <<task_id>>, !.max_wait = max_wait,
                              !.poll_interval = poll_interval, !.t0 = now]
    /\ loops' = (0 :> [EnterPoll(op, task_id, now) EXCEPT !.quiet = FALSE])
                @@ (1 :> [EnterPoll(op, task_id, now) EXCEPT !.quiet = TRUE])
    /\ ret' = Running
    /\ UNCHANGED <<adapter, now, batch>>

\* both runs evaluate the while condition; their queries take d seconds
PairCheck(d) ==
    /\ main_pc = "pair"
    /\ \A i \in DOMAIN loops : CanCheck(loops[i])
    /\ loops' = [i \in DOMAIN loops |-> Checked(loops[i], now, d, call.max_wait)]
    /\ UNCHANGED <<adapter, now, call, main_pc, ret, batch>>

\* both runs get the response resp
PairReceive(resp) ==
    /\ main_pc = "pair"
    /\ \A i \in DOMAIN loops : CanReceive(loops[i])
    /\ loops' = [i \in DOMAIN loops |-> Received(loops[i], now, resp, call.poll_interval)]
    /\ UNCHANGED <<adapter, now, call, main_pc, ret, batch>>

\* both runs are over
PairFinish ==
    /\ main_pc = "pair"
    /\ \A i \in DOMAIN loops : loops[i].pc \in TerminalPcs
    /\ ret' = loops[0].out
    /\ main_pc' = "done"
    /\ UNCHANGED <<adapter, now, call, loops, batch>>

NextQuiet ==
    \/ \E kind \in {"image", "video"}, model \in SubmitModels : SubmitCall(kind, model)
    \/ \E resp \in SubmitResponses : SubmitReceive(resp)
    \/ \E op \in {"poll_image", "poll_video"}, h \in Handles,
          mw \in PollMaxWaits, pi \in PollIntervals : PairPoll(op, h, mw, pi)
    \/ \E d \in Latencies : PairCheck(d)
    \/ \E resp \in PollResponses : PairReceive(resp)
    \/ PairFinish
    \/ Release
    \/ Tick

SpecQuiet == Init /\ [][NextQuiet]_vars

\* what a run does, apart from the value of quiet and what it reports
Behaviour(l) == [l EXCEPT !.quiet = FALSE, !.reported = ""]

\* C17: of two runs of the poll loop on the same handle, responses and
\* clock, one with quiet=False and one with quiet=True, both are at every
\* instant at the same point of the loop with the same wake-up time, retry
\* counter, last response and outcome; the quiet one reports nothing.
C17_QuietNonInterfering ==
    main_pc \in {"pair", "done"} /\ DOMAIN loops = {0, 1} =>
        /\ ~loops[0].quiet /\ loops[1].quiet
        /\ Behaviour(loops[0]) = Behaviour(loops[1])
        /\ loops[1].reported = ""

\* after an HTTP error and a 200 response with a non-terminal status both
\* runs sleep until the same time; the run that is not quiet has reported
\* the status
C17_Witness ==
    /\ main_pc = "pair"
    /\ DOMAIN loops = {0, 1}
    /\ loops[0].pc = "sleep" /\ loops[1].pc = "sleep"
    /\ loops[0].wake = loops[1].wake
    /\ loops[0].hist = "erred"
    /\ loops[0].reported = "Status:"
    /\ loops[1].reported = ""
    /\ now > 0

----------------------------------------------------------------------------
(* A second poll of a handle whose poll has returned.  Slot -1 keeps what
   the earlier poll was given and what it returned *)

\* the handle, last response and outcome of a finished activation
Earlier(l) == Activation("returned", l.task_id, 0, 0, 0, l.out, 0, l.last, "pending")

\* the caller polls the same handle again
PollAgain(op, max_wait, poll_interval, quiet) ==
    /\ main_pc = "done"
    /\ DOMAIN loops = {0}
    /\ loops[0].pc = "returned"
    /\ main_pc' = "poll"
    /\ now' = 0
    /\ call' = [NoCall EXCEPT !.op = op, !.task_ids = <<loops[0].task_id>>,
                              !.max_wait = max_wait, !.poll_interval = poll_interval]
    /\ loops' = (0 :> [EnterPoll(op, loops[0].task_id, 0) EXCEPT !.quiet = quiet])
                @@ (-1 :> Earlier(loops[0]))
    /\ ret' = Running
    /\ UNCHANGED <<adapter, batch>>

\* every operation of the adapter
NextAdapter ==
    \/ NextPoll
    \/ NextBatch
    \/ \E op \in {"poll_image", "poll_video"}, mw \in PollMaxWaits, pi \in PollIntervals,
          quiet \in BOOLEAN : PollAgain(op, mw, pi, quiet)

SpecAdapter == Init /\ [][NextAdapter]_vars

\* C18, the second poll: when the second poll of a handle has ended on the
\* same response as the first, which returned, it has returned an equal
\* result.
C18_SameResult ==
    DOMAIN loops = {-1, 0} /\ loops[0].pc \in TerminalPcs /\ loops[0].last = loops[-1].last =>
        /\ loops[0].out.kind = "return"
        /\ loops[0].out = loops[-1].out
        /\ main_pc = "done" => ret = loops[-1].out

\* C18, the map: only the step of a submit that gets the vendor's answer
\* changes _task_poll_urls; no step of a single poll or of
\* poll_tasks_parallel does.
C18_MapReadOnly == task_poll_urls' # task_poll_urls => main_pc = "post"

\* C18: two polls of the same recorded handle that get the same "succeeded"
\* response return equal success results, and polls, single or batch, leave
\* the handle map unchanged.
C18_IdempotentRepoll == []C18_SameResult /\ [][C18_MapReadOnly]_vars

\* the second poll of r1 has returned u2 on the response the first got
C18_Witness ==
    /\ DOMAIN loops = {-1, 0}
    /\ main_pc = "done"
    /\ loops[0].last = loops[-1].last
    /\ loops[0].last.output = Output("list", <<"u2", "u1">>, "")
    /\ ret = Returned(SuccessResult("r1", "u2"))
    /\ ret = loops[-1].out

----------------------------------------------------------------------------
(* The deadline of one poll loop *)

\* seconds since the loop was entered
Elapsed(l) == now - l.start_time

\* C19, the step of the while condition: the step that evaluates the
\* condition issues the query when the elapsed time is below max_wait and
\* otherwise ends the loop with the timeout error; a query is issued by no
\* other step.
C19_DeadlineStep ==
    InPoll /\ 0 \in DOMAIN loops' /\ loops'[0] # loops[0] =>
        LET l == loops[0]
            m == loops'[0]
        IN
        /\ CanCheck(l) =>
               IF Elapsed(l) < call.max_wait
               THEN m.pc = "await" /\ m.out = Running
               ELSE m.pc = "raised" /\ m.out = Raised(TimeoutError(call.max_wait))
        /\ m.pc = "await" => CanCheck(l) /\ Elapsed(l) < call.max_wait
        /\ m.out = Raised(TimeoutError(call.max_wait)) =>
               CanCheck(l) /\ Elapsed(l) >= call.max_wait

\* C19, max_wait <= 0: the loop of a recorded handle has made no query and
\* got no response; it is at its first test or has raised the timeout.
C19_NoQuery ==
    InPoll /\ call.max_wait <= 0 /\ loops[0].task_id \in DOMAIN task_poll_urls =>
        LET l == loops[0] IN
        /\ l.pc = "check" \/ (l.pc = "raised" /\ l.out = Raised(TimeoutError(call.max_wait)))
        /\ l.last = NoResponse
        /\ l.hist = "pending"
        /\ l.retry_count = 0
        /\ Elapsed(l) = 0

\* C19: the deadline is tested once per iteration, at its start: a query is
\* issued only when the elapsed time is below max_wait at that test; when
\* it has reached max_wait at that test no query follows and the loop ends
\* with the timeout, whatever the vendor would answer; with max_wait <= 0
\* the loop times out without a query.
C19_DeadlineAtIterationStart == []C19_NoQuery /\ [][C19_DeadlineStep]_vars

\* a loop with a positive max_wait has timed out at the test made exactly
\* max_wait after its entry, after a query answered "processing"
C19_Witness ==
    /\ InPoll
    /\ call.max_wait > 0
    /\ loops[0].pc = "raised"
    /\ loops[0].out = Raised(TimeoutError(call.max_wait))
    /\ Elapsed(loops[0]) = call.max_wait
    /\ loops[0].hist = "pending"

----------------------------------------------------------------------------
(* The poll loop as a state machine *)

\* the vendor statuses that end the loop
TerminalStatuses == {"succeeded", "failed", "canceled"}

\* the exceptions of the exits Failed and TimedOut
FailedTexts ==
    {"Replicate prediction", "No usable output in succeeded prediction:",
     "Poll failed after retries:"}
TimedOutText == "Timeout waiting for Replicate prediction after"

\* the loop of a recorded handle has been entered
Entered == InPoll /\ loops[0].task_id \in DOMAIN task_poll_urls

\* C20, the exits: a loop that has ended has returned a success, or raised
\* one of vendor failure, malformed output and retry exhaustion, or raised
\* the timeout.
C20_Exits ==
    Entered =>
        LET l == loops[0] IN
        /\ l.pc = "returned" => l.out.kind = "return" /\ l.out.value.status = "success"
        /\ l.pc = "raised" =>
               /\ l.out.kind = "raise"
               /\ l.out.exc.text \in FailedTexts \cup {TimedOutText}

\* C20, the steps: a 200 response with a status that is not terminal puts
\* the loop to sleep for poll_interval, still running; the step after a
\* sleep is the test of the while condition; a finished loop takes no step.
C20_Step ==
    Entered /\ 0 \in DOMAIN loops' /\ loops'[0] # loops[0] =>
        LET l == loops[0]
            m == loops'[0]
        IN
        /\ l.pc \notin TerminalPcs
        /\ CanReceive(l) /\ IsJson(m.last)
              /\ DictGet(m.last.status, "unknown") \notin TerminalStatuses =>
               m.pc = "sleep" /\ m.wake = now + call.poll_interval /\ m.out = Running
        /\ l.pc = "sleep" => CanCheck(l) /\ m.pc \in {"await", "raised"}

\* C20: a 200 response with a status other than "succeeded", "failed" or
\* "canceled" never ends the loop, which sleeps poll_interval and tests the
\* deadline again; the loop ends only as Succeeded, Failed (vendor failure,
\* malformed output, retry exhaustion) or TimedOut; after that it makes no
\* query and does not sleep.
C20_PollStateMachine == []C20_Exits /\ [][C20_Step]_vars

----------------------------------------------------------------------------
(* Which responses count as transport errors *)

\* the step in which the loop gets the response of its query
Receives == Entered /\ CanReceive(loops[0]) /\ 0 \in DOMAIN loops' /\ loops'[0] # loops[0]

\* the response was counted as a transport error: the retry counter went up
CountedAsError == loops'[0].retry_count = loops[0].retry_count + 1

\* the response was retried: the loop sleeps poll_interval, still running
Retried ==
    /\ loops'[0].pc = "sleep"
    /\ loops'[0].wake = now + call.poll_interval
    /\ loops'[0].out = Running

\* C21 as written: an HTTP response is counted as a transport error exactly
\* when its status code is outside 200..299.
C21_TransportErrorIffNon2xx ==
    [][Receives /\ ~loops'[0].last.raises =>
          (CountedAsError <=> loops'[0].last.code \notin 200..299)]_vars

\* C21, the step: an HTTP response is counted as a transport error exactly
\* when its status code is not 200, a 2xx code other than 200 included: the
\* counter goes up by one and the loop sleeps and retries, or raises at the
\* 11th in a row.  A 200 response is not counted: its body is decoded, and
\* when it is JSON the counter is 0 and the loop goes by the vendor status;
\* when it is not, the decoding error ends the loop.
C21_TransportErrorStep ==
    Receives /\ ~loops'[0].last.raises =>
        LET l == loops[0]
            m == loops'[0]
            status == DictGet(m.last.status, "unknown")
        IN
        /\ CountedAsError <=> m.last.code # 200
        /\ m.last.code # 200 =>
               \/ Retried /\ m.retry_count <= MAX_RETRIES
               \/ m.pc = "raised" /\ m.out = Raised(RetriesMsg) /\ m.retry_count = MAX_RETRIES + 1
        /\ m.last.code = 200 /\ ~m.last.json =>
               /\ m.pc = "raised" /\ m.out.exc.text = "JSONDecodeError"
               /\ m.retry_count = l.retry_count
        /\ m.last.code = 200 /\ m.last.json =>
               /\ m.retry_count = 0
               /\ status = "succeeded" =>
                      m.pc \in TerminalPcs /\ m.out.exc.text \notin {"Poll failed after retries:", "Replicate prediction"}
               /\ status \in {"failed", "canceled"} =>
                      m.pc = "raised" /\ m.out.exc.text = "Replicate prediction"
               /\ status \notin TerminalStatuses => Retried

C21_TransportError == [][C21_TransportErrorStep]_vars

\* a 201 response has been counted as an error and is being retried
C21_Witness ==
    /\ Entered
    /\ loops[0].last.code = 201
    /\ ~loops[0].last.raises
    /\ loops[0].pc = "sleep"
    /\ loops[0].retry_count = 2
    /\ loops[0].out = Running

----------------------------------------------------------------------------
(* The WaveSpeed adapter's submit_image / submit_video, and the models the
   two adapters accept against the catalogs of the registry *)

wavespeed_IMAGE_MODELS == ("gpt-image-1.5" :> "openai/gpt-image-1.5/edit")

wavespeed_VIDEO_MODELS ==
    ("kling-3.0" :> "kwaivgi/kling-v3.0-pro/image-to-video")
    @@ ("kling-3.0-std" :> "kwaivgi/kling-v3.0-std/image-to-video")
    @@ ("sora-2" :> "openai/sora-2/image-to-video")
    @@ ("sora-2-pro" :> "openai/sora-2/image-to-video-pro")

\* table.get(key)
TableGet(table, key) == IF key \in DOMAIN table THEN table[key] ELSE NoneVal

\* the model names a caller passes to a submit: every key of the catalogs
\* and of the adapters' tables, and a name of no model
AdapterModels ==
    DOMAIN IMAGE_PROVIDERS \cup DOMAIN VIDEO_PROVIDERS \cup _IMAGE_MODELS \cup _VIDEO_MODELS
    \cup DOMAIN wavespeed_IMAGE_MODELS \cup DOMAIN wavespeed_VIDEO_MODELS \cup {"dall-e"}

Modes == {"pro", "std"}

\* model.startswith("kling") or model.startswith("sora"), over AdapterModels
HasPayloadBuilder(model) == model \in {"kling-3.0", "kling-3.0-std", "sora-2", "sora-2-pro"}

\* the model_id of submit_image (`_IMAGE_MODELS.get(model)`) and of
\* submit_video (the std variant for Kling in mode "std", else
\* `_VIDEO_MODELS.get(model)`)
WavespeedModelId(kind, model, mode) ==
    IF kind = "image" THEN TableGet(wavespeed_IMAGE_MODELS, model)
    ELSE IF model = "kling-3.0" /\ mode = "std"
    THEN TableGet(wavespeed_VIDEO_MODELS, "kling-3.0-std")
    ELSE TableGet(wavespeed_VIDEO_MODELS, model)

\* what submit_wavespeed_task comes back with: an exception, or the task
\* info {"task_id": ..., "poll_url": ...}
WavespeedTaskInfos == [raises : BOOLEAN, task_id : {"w1"}, poll_url : {"q1", "q2"}]

\* wavespeed.submit_image / submit_video up to the call of
\* submit_wavespeed_task: the ValueError for a model the adapter does not
\* serve or cannot build a payload for, or the request goes out
WavespeedSubmitCall(kind, model, mode) ==
    /\ main_pc = "idle"
    /\ call' = [NoCall EXCEPT !.op = IF kind = "image" THEN "submit_image" ELSE "submit_video",
                              !.model = model, !.provider = "wavespeed", !.mode = mode]
    /\ IF Falsy(WavespeedModelId(kind, model, mode))
       THEN /\ ret' = Raised(Msg("WaveSpeed doesn't support model", kind, model, 0))
            /\ UNCHANGED main_pc
       ELSE IF kind = "video" /\ ~HasPayloadBuilder(model)
       THEN /\ ret' = Raised(Msg("No payload builder for model:", model, "", 0))
            /\ UNCHANGED main_pc
       ELSE /\ ret' = Running
            /\ main_pc' = "wavespeed_post"
    /\ UNCHANGED <<adapter, now, loops, batch>>

\* submit_wavespeed_task returns info or raises: the write to
\* _task_poll_urls and the return of the task id
WavespeedSubmitReceive(info) ==
    /\ main_pc = "wavespeed_post"
    /\ IF info.raises
       THEN /\ ret' = Raised(Msg("submit_wavespeed_task", "", "", 0))
            /\ UNCHANGED wavespeed_task_poll_urls
       ELSE /\ wavespeed_task_poll_urls' =
                   Record(wavespeed_task_poll_urls, info.task_id, info.poll_url)
            /\ ret' = Returned(HandleResult(info.task_id))
    /\ main_pc' = "idle"
    /\ UNCHANGED <<task_poll_urls, issued, now, call, loops, batch>>

\* the submits of both adapters, called with every model name
NextCatalog ==
    \/ \E kind \in {"image", "video"}, model \in AdapterModels : SubmitCall(kind, model)
    \/ \E resp \in SubmitResponses : SubmitReceive(resp)
    \/ \E kind \in {"image", "video"}, model \in AdapterModels, mode \in Modes :
           WavespeedSubmitCall(kind, model, mode)
    \/ \E info \in WavespeedTaskInfos : WavespeedSubmitReceive(info)

SpecCatalog == Init /\ [][NextCatalog]_vars

\* the last submit was not rejected for its model
Accepted ==
    /\ call.op \in {"submit_image", "submit_video"}
    /\ ret.exc.text \notin {"Replicate doesn't support model", "WaveSpeed doesn't support model"}

\* C22: a model name that submit_image / submit_video of an adapter has not
\* rejected as unsupported is a key of the catalog of that kind,
\* IMAGE_PROVIDERS for submit_image and VIDEO_PROVIDERS for submit_video.
C22_AcceptedModelsInCatalog ==
    Accepted =>
        call.model \in DOMAIN (IF call.op = "submit_image" THEN IMAGE_PROVIDERS
                               ELSE VIDEO_PROVIDERS)

----------------------------------------------------------------------------
(* The completed list of poll_tasks_parallel, under SpecBatch *)

\* a call of poll_tasks_parallel is in progress or has just ended
InBatch == call.op = "poll_tasks_parallel"

\* the futures whose tid has been appended to completed: by the worker
\* after _poll_prediction returned, by the collecting thread in the except
\* branch
AppendedByWorker ==
    {i \in DOMAIN futures :
        \/ futures[i].state = "appended"
        \/ futures[i].state = "finished" /\ futures[i].out.kind = "return"}
AppendedByCollector == {i \in yielded : futures[i].out.kind = "raise"}

\* how often the handle tid is in the completed list
TimesCompleted(tid) == Cardinality({k \in DOMAIN completed : completed[k] = tid})

\* C23, the list: at every instant the completed list holds one entry for
\* each future whose worker got a result and one for each failed future the
\* collecting thread has handled, handle by handle, and no other; on return
\* its length is the number of input handles.
C23_Accounting ==
    InBatch =>
        /\ AppendedByWorker \cap AppendedByCollector = {}
        /\ Len(completed) = Cardinality(AppendedByWorker) + Cardinality(AppendedByCollector)
        /\ \A tid \in Handles :
               TimesCompleted(tid) =
                   Cardinality({i \in AppendedByWorker \cup AppendedByCollector :
                                   call.task_ids[i] = tid})
        /\ BatchDone => Len(completed) = Len(call.task_ids)

\* C23, the reports: while a worker is between its append and its print
\* the loop of its task has returned and the list holds between 1 and total
\* entries; a future that has returned a result was appended by its worker;
\* the collecting thread handles only finished futures.
C23_Reports ==
    InBatch =>
        /\ \A i \in DOMAIN futures :
               futures[i].state = "appended" =>
                   /\ i \in DOMAIN loops /\ loops[i].pc = "returned"
                   /\ Len(completed) \in 1 .. Len(call.task_ids)
        /\ \A i \in yielded : futures[i].state = "finished"

\* C23, the print: the step in which _poll_one prints len(completed) and
\* returns is taken after its append, with the task's loop returned, and
\* the count it prints is between 1 and the total.
C23_PrintStep ==
    InBatch =>
        \A i \in DOMAIN futures :
            i \in DOMAIN futures' /\ futures[i].state # "finished"
              /\ futures'[i].state = "finished" /\ futures'[i].out.kind = "return" =>
                /\ futures[i].state = "appended"
                /\ loops[i].pc = "returned"
                /\ Len(completed) \in 1 .. Len(call.task_ids)
                /\ completed' = completed

\* C23, the steps: a step adds at most one entry at the end of the
\* completed list and takes none away while the call runs.
C23_AppendStep ==
    InBatch /\ call' = call /\ completed' # completed =>
        /\ Len(completed') = Len(completed) + 1
        /\ SubSeq(completed', 1, Len(completed)) = completed

\* C23: under every interleaving of the worker threads and the collecting
\* thread each submitted task is added to completed exactly once, by its
\* worker on success and by the collecting thread on failure; on return the
\* list is as long as the input; a count printed with a success is between
\* 1 and the total; a completion is reported only after the task's loop
\* has ended.
C23_CompletedCount ==
    []C23_Accounting /\ []C23_Reports /\ [][C23_AppendStep /\ C23_PrintStep]_vars

\* a batch of three has returned with one task failed and two succeeded,
\* the failed one appended between the two
C23_Witness ==
    /\ BatchDone
    /\ Len(call.task_ids) = 3
    /\ Len(completed) = 3
    /\ Cardinality(AppendedByCollector) = 1
    /\ Cardinality(AppendedByWorker) = 2
    /\ \E i \in AppendedByCollector : completed[2] = call.task_ids[i]
    /\ \E i \in AppendedByWorker : completed[1] = call.task_ids[i]

====
